---- MODULE Spec2Model ----
(***************************************************************************)
(* Naboo: the animation step sequencer of mip2 (src/unnamed/part_001).     *)
(*                                                                         *)
(* A sequence (Naboo instance) owns a list of steps, a cursor _index, a    *)
(* canceled flag and a map of event listeners.  JavaScript is single       *)
(* threaded: every action below is one run-to-completion task (a call by   *)
(* client code, a timer, a dispatched DOM event) and contains all the      *)
(* synchronous calls that task makes.  The synchronous call graph          *)
(* start -> trigger -> next -> step -> next ... is computed by mutually    *)
(* recursive operators over a record w holding the whole program state.    *)
(***************************************************************************)
EXTENDS Integers, Sequences, FiniteSets, TLC

\* ------------------------------------------------------------------ bounds
NumSeqs == 4          \* Naboo instances the client constructs
MaxSteps == 3         \* steps the client appends to one sequence

NumDoms == 1          \* target elements
MaxCalls == 2         \* direct calls of Naboo.transition by the client
MaxAnimSteps == 2     \* animate steps the client chains

Seqs == 1..NumSeqs
Doms == 1..NumDoms
NoDom == 0            \* a missing target (undefined / null)

VARIABLES
  steps,       \* [Seqs -> Seq(step)]           this.steps
  _index,      \* [Seqs -> Int]                 this._index
  canceled,    \* [Seqs -> BOOLEAN]             this.canceled
  _handlers,   \* [Seqs -> [names -> Seq(fn)]]  this._handlers
  p_n,         \* [Seqs -> [step index -> Int]] the counter n of each running p step
  pending,     \* [Seqs -> SUBSET Nat]          done-steps holding a continuation not yet called
  build,       \* how the build binds `arguments` inside the arrow function of p
  platform,    \* what the style surface of the runtime supports (probed at lines 163-175)
  opts,        \* Seq(option object)            option objects the client shares between steps
  attr,        \* [Doms -> attribute value]     the data-naboo attribute of each target
  style,       \* [Doms -> [names -> value]]    the inline style declarations of each target
  listeners,   \* [Doms -> Seq(invocation)]     transitionEnd listeners, in registration order
  invs,        \* Seq(invocation closure)       one per call of Naboo.transition that passed the guard
  uncaught,    \* exceptions that reached the event loop
  log          \* [0..NumSeqs -> Seq(<<tag, arg>>)] what a recording client observes, in order;
               \* log[0] records callbacks that belong to no sequence

vars == <<steps, _index, canceled, _handlers, p_n, pending, build, platform,
          opts, attr, style, listeners, invs, uncaught, log>>

\* ------------------------------------------------------------ values
\* A step closure pushed by a registered plugin method (line 122).
DoneStep(sync) == [kind |-> "done", sync |-> sync]
PStep(children) == [kind |-> "p", children |-> children]
\* opt = 0: the step was appended without an option object
AnimateStep(dom, prop, opt) == [kind |-> "animate", dom |-> dom, prop |-> prop, opt |-> opt]

\* Listener functions stored in _handlers.
\* A client function that records its call as <<"fn", id>> in log[s].
UserFn(s, id) == [kind |-> "user", seq |-> s, id |-> id]
PCallback(s, k) == [kind |-> "pcb", seq |-> s, step |-> k]
NoFn == [kind |-> "undefined"]

NoHandlers == [x \in {} |-> <<>>]

\* The program state as one record, and its write-back.
World ==
  [steps |-> steps, _index |-> _index, canceled |-> canceled,
   _handlers |-> _handlers, p_n |-> p_n, pending |-> pending,
   build |-> build, platform |-> platform, opts |-> opts, attr |-> attr,
   style |-> style, listeners |-> listeners, invs |-> invs,
   uncaught |-> uncaught, log |-> log, exc |-> FALSE]

\* An exception nobody catches unwinds to the event loop: the task ends there.
Commit(w) ==
  /\ steps' = w.steps
  /\ _index' = w._index
  /\ canceled' = w.canceled
  /\ _handlers' = w._handlers
  /\ p_n' = w.p_n
  /\ pending' = w.pending
  /\ build' = w.build
  /\ platform' = w.platform
  /\ opts' = w.opts
  /\ attr' = w.attr
  /\ style' = w.style
  /\ listeners' = w.listeners
  /\ invs' = w.invs
  /\ uncaught' = IF w.exc THEN w.uncaught + 1 ELSE w.uncaught
  /\ log' = w.log

Logged(w, s, tag, arg) == [w EXCEPT !.log[s] = Append(@, <<tag, arg>>)]

\* ------------------------------------------------------------ Naboo core
\* function Naboo () (lines 11-16)
Naboo ==
  [steps |-> <<>>, _index |-> -1, _handlers |-> NoHandlers, canceled |-> FALSE]

\* Naboo.prototype.on (lines 64-67)
on_front(w, s, name, fn) ==
  LET h == w._handlers[s]
      old == IF name \in DOMAIN h THEN h[name] ELSE <<>>
  IN [w EXCEPT !._handlers[s] =
        [x \in DOMAIN h \cup {name} |-> IF x = name THEN <<fn>> \o old ELSE h[x]]]
on(w, s, name, fn) ==
  LET h == w._handlers[s]
      old == IF name \in DOMAIN h THEN h[name] ELSE <<>>
  IN [w EXCEPT !._handlers[s] =
        [x \in DOMAIN h \cup {name} |-> IF x = name THEN Append(old, fn) ELSE h[x]]]

\* The name argument of off when it is falsy (absent, or the empty string).
NoName == ""

\* this._handlers[name], undefined read as no listeners
ListOf(h, name) == IF name \in DOMAIN h THEN h[name] ELSE <<>>

\* off: the loop of lines 83-88 leaves i at the first handlers[i] === fn,
\* or at handlers.length (0-based)
RECURSIVE IndexOfFn(_, _, _)
IndexOfFn(handlers, fn, i) ==
  IF i >= Len(handlers) \/ handlers[i + 1] = fn THEN i
  ELSE IndexOfFn(handlers, fn, i + 1)

\* Array.prototype.splice(i, 1)
Splice1_all(seq, i) == <<>>
Splice1(seq, i) ==
  [j \in 1..(Len(seq) - (IF i < Len(seq) THEN 1 ELSE 0)) |->
     IF j <= i THEN seq[j] ELSE seq[j + 1]]

\* Naboo.prototype.off (lines 75-92)
off(w, s, name, fn) ==
  LET h == w._handlers[s] IN
  IF name = NoName THEN [w EXCEPT !._handlers[s] = NoHandlers]
  ELSE IF fn = NoFn
    THEN [w EXCEPT !._handlers[s] =
            [x \in DOMAIN h \cup {name} |-> IF x = name THEN <<>> ELSE h[x]]]
  ELSE IF name \in DOMAIN h
    THEN [w EXCEPT !._handlers[s][name] = Splice1(@, IndexOfFn(@, fn, 0))]
  ELSE w

\* Naboo.prototype.cancel (lines 54-56)
cancel(w, s) == [w EXCEPT !.canceled[s] = TRUE]

\* next(): `if (this.canceled) return` (lines 38-40)
NextBlocked_never(w, s) == FALSE
NextBlocked(w, s) == w.canceled[s]

\* next(): `this._index++` (line 42)
Increment_skips(i) == i + 2
Increment(i) == i + 1

\* next(): `this._index >= this.steps.length` (line 43)
PastLastStep_early(w, s) == w._index[s] + 1 >= Len(w.steps[s])
PastLastStep(w, s) == w._index[s] >= Len(w.steps[s])

\* p: `n-- === 0` compares the value before the decrement (line 134)
CountdownDone(old) == old = 0

\* p: the children are `Array.prototype.slice.call(arguments, 1)` (line 132).
\* The step function is an arrow function, which has no `arguments` of its
\* own.  A build that rewrites the arrow into a plain function gives it its
\* own arguments (next and the children).  Otherwise `arguments` is the
\* enclosing module scope's: unbound (ReferenceError), or the arguments of
\* the function the bundler wraps the module in, whose elements past the
\* first have no start method (TypeError) or do not exist (args is empty).
Builds == {"own", "throws", "empty"}
ArgumentsThrow(w) == w.build = "throws"
pArgs(w, children) == IF w.build = "own" THEN children ELSE <<>>

\* ------------------------------------------------------------ JavaScript values
\* Option values as the client passes them.  Durations and delays are in
\* milliseconds; the code divides them by 1000 for the CSS text and
\* multiplies the sum by 1000 again for the timer, which the model keeps as
\* exact milliseconds.
Undefined == [t |-> "undefined"]
Num(v) == [t |-> "number", num |-> v]
Str(v) == [t |-> "string", str |-> v]

NaN == [nan |-> TRUE]
Int_(v) == [nan |-> FALSE, int |-> v]

\* The strings of the model that begin with a decimal integer, and that integer.
LeadingInt == ("250" :> 250) @@ ("0" :> 0) @@ ("-20" :> -20) @@ ("30ms" :> 30)

\* parseInt(x, 10) of the values above: an integral number gives itself, a
\* string the integer it begins with, anything else (undefined, a string
\* without leading digits) NaN.
parseInt(x) ==
  IF x.t = "number" THEN Int_(x.num)
  ELSE IF x.t = "string" /\ x.str \in DOMAIN LeadingInt THEN Int_(LeadingInt[x.str])
  ELSE NaN

\* `parseInt(...) || dflt`: NaN and 0 are falsy.
OrDefault(parsed, dflt) == IF parsed.nan \/ parsed.int = 0 THEN dflt ELSE parsed.int

DefaultDuration == 400
DefaultDelay == 0
Grace == 25

Max(a, b) == IF a >= b THEN a ELSE b

\* let easeArr = [...] (lines 287-293)
easeArr == {"ease", "linear", "ease-in", "ease-out", "ease-in-out"}

\* An option object {duration, ease, delay, cb, mode}; an absent key reads undefined.
Opt(duration, ease, delay, cb) ==
  [duration |-> duration, ease |-> ease, delay |-> delay, cb |-> cb, mode |-> Undefined]
EmptyOpt == Opt(Undefined, Undefined, Undefined, NoFn)

\* The property argument: a plain object with these keys, or something else.
PlainObject(keys) == [plain |-> TRUE, keys |-> keys]
NotPlainObject == [plain |-> FALSE, keys |-> <<>>]

\* opt.cb as rewritten by animate (lines 405-408).
AnimateCb(inner, s, k) == [kind |-> "animateCb", inner |-> inner, seq |-> s, step |-> k]

\* ------------------------------------------------------------ Naboo.tool
\* Feature detection (lines 145-175).  A platform is what testEl.style
\* defines: transform, transitionProperty, and <Vendor>TransitionProperty.
vendors == <<"Webkit", "Moz", "O">>
vendorEvent == [Webkit |-> "webkit", Moz |-> "", O |-> "o"]

Platform(transform, transitionProperty, prefixed) ==
  [transform |-> transform, transitionProperty |-> transitionProperty, prefixed |-> prefixed]

RECURSIVE firstVendor(_, _)
firstVendor(pf, i) ==
  IF i > Len(vendors) THEN 0
  ELSE IF vendors[i] \in pf.prefixed THEN i ELSE firstVendor(pf, i + 1)

\* eventPrefix starts as '' and is set to vendors[prop] in the loop (lines 146, 163-172)
eventPrefix(pf) ==
  IF ~pf.transform /\ firstVendor(pf, 1) # 0
    THEN Str(vendorEvent[vendors[firstVendor(pf, 1)]])
    ELSE Str("")

\* let off = eventPrefix === undefined && testEl.style.transitionProperty === undefined (line 175)
tool_off(pf) == eventPrefix(pf) = Undefined /\ ~pf.transitionProperty

\* ------------------------------------------------------------ DOM
\* dom.getAttribute returns a string or null; setAttribute stores the string
\* of the value it is given.
Null == [t |-> "null"]
Numeral(v) == [t |-> "string", numeral |-> v]
getAttribute(w, d) == w.attr[d]
setAttribute(w, d, v) == [w EXCEPT !.attr[d] = Numeral(v)]

\* Unary plus: the number a value converts to (null gives 0, the attribute
\* strings here are decimal numerals, held as the number they spell).
ToNumber(x) == IF x.t = "null" THEN 0 ELSE IF x.t = "number" THEN x.num ELSE x.numeral

\* `nabooNum !== +nabooNum` (line 298): strict inequality, true unless
\* nabooNum is already a number.
NotItsNumber(x) == ~(x.t = "number" /\ x = Num(ToNumber(x)))

\* The four transition declarations (lines 270-273) and the reset object (lines 277-281).
transitionProperty == "transition-property"
transitionDuration == "transition-duration"
transitionDelay == "transition-delay"
transitionTiming == "transition-timing-function"
TransitionNames == {transitionProperty, transitionDuration, transitionDelay, transitionTiming}
cssReset == [x \in TransitionNames |-> <<>>]

\* dom.style[name]: '' when the declaration is absent.  A declaration's
\* value is the list of its comma separated items; '' is the empty list.
styleOf(w, d, name) == IF name \in DOMAIN w.style[d] THEN w.style[d][name] ELSE <<>>

\* Naboo.tool.setCss (lines 185-197): an empty value removes the
\* declaration, any other value is written through cssText.
setCss(w, d, obj) ==
  LET keep == {x \in DOMAIN obj : obj[x] # <<>>}
      old == w.style[d]
  IN [w EXCEPT !.style[d] =
        [x \in (DOMAIN old \ DOMAIN obj) \cup keep |-> IF x \in keep THEN obj[x] ELSE old[x]]]

RECURSIVE Without(_, _)
Without(seq, x) ==
  IF seq = <<>> THEN <<>>
  ELSE IF Head(seq) = x THEN Without(Tail(seq), x)
  ELSE <<Head(seq)>> \o Without(Tail(seq), x)

InSeq(seq, x) == \E j \in 1..Len(seq) : seq[j] = x

\* dom.addEventListener / removeEventListener(transitionEnd, wrappedCallback)
addEventListener(w, d, i) ==
  IF InSeq(w.listeners[d], i) THEN w ELSE [w EXCEPT !.listeners[d] = Append(@, i)]
removeEventListener(w, d, i) == [w EXCEPT !.listeners[d] = Without(@, i)]

\* A native event as the handler sees it: whether target === currentTarget,
\* and elapsedTime (in the unit of duration + delay).
Event(self, elapsedTime) == [self |-> self, elapsedTime |-> elapsedTime]
NoEvent == [self |-> FALSE, elapsedTime |-> -1, none |-> TRUE]

\* wrappedCallback: `event.elapsedTime !== (duration + delay)` (line 354)
ElapsedMismatch_never(event, inv) == FALSE
ElapsedMismatch(event, inv) == event.elapsedTime # inv.duration + inv.delay

\* the timer body: `!fired && wrappedCallback()` (line 378)
TimerRuns_always(inv) == TRUE
TimerRuns_never(inv) == FALSE
TimerRuns(inv) == ~inv.fired

\* `(+dom.getAttribute('data-naboo') === 0)` (line 371)
CounterIsZero_never(w, d) == FALSE
CounterIsZero(w, d) == ToNumber(getAttribute(w, d)) = 0

\* JavaScript passes values: Strict(v, F) is F applied to the value of v,
\* computed once.
Strict(v, F(_)) == CHOOSE r \in {F(x) : x \in {v}} : TRUE

RECURSIVE next(_, _), trigger(_, _, _), forEach(_, _, _, _, _),
          callFn(_, _), runStep(_, _, _), continuation(_, _, _),
          start(_, _, _), startAll(_, _, _, _),
          transition(_, _, _, _), wrappedCallback(_, _, _), animate(_, _, _)

\* The continuation handed to step k of s: this.next.bind(this) (line 121),
\* logged as the moment step k calls it.
continuation(w0, s, k) ==
  Strict(w0, LAMBDA w :
    IF w.exc THEN w ELSE next(Logged(w, s, "cont", k), s))

\* Naboo.prototype.next (lines 37-49)
next(w0, s) ==
  Strict(w0, LAMBDA w :
    IF w.exc \/ NextBlocked(w, s) THEN w
    ELSE LET w1 == [w EXCEPT !._index[s] = Increment(@)] IN
         IF PastLastStep(w1, s)
           THEN trigger(Logged(w1, s, "end", -1), s, "end")
           ELSE runStep(w1, s, w1._index[s]))

\* currentStep.call(this) (line 47): the closure of line 122 applies the
\* plugin function to (next, ...args).
runStep(w0, s, k) ==
  Strict(w0, LAMBDA w :
    LET st == w.steps[s][k + 1]
        w1 == Logged(w, s, "invoke", k)
    IN CASE st.kind = "done" ->
              \* done: fn(next) (line 141); the client's fn calls next now or later
              IF st.sync THEN continuation(w1, s, k)
              ELSE [w1 EXCEPT !.pending[s] = @ \cup {k}]
         [] st.kind = "p" ->
              \* p (lines 131-135)
              IF ArgumentsThrow(w1) THEN [w1 EXCEPT !.exc = TRUE]
              ELSE LET args == pArgs(w1, st.children)
                   IN startAll([w1 EXCEPT !.p_n[s] = (k :> Len(args)) @@ @], s, k, args)
         [] st.kind = "animate" -> animate(w1, s, k))

\* args.forEach(naboo => naboo.start(callback)) (line 134)
startAll(w0, s, k, children) ==
  Strict(w0, LAMBDA w :
    IF w.exc \/ children = <<>> THEN w
    ELSE startAll(start(Logged(w, s, "pstart", Head(children)),
                        Head(children), PCallback(s, k)),
                  s, k, Tail(children)))

\* start() with the first advance made before the `start` event
start_late(w0, s, fn) ==
  Strict(w0, LAMBDA w :
    LET w1 == IF fn # NoFn THEN on(w, s, "end", fn) ELSE w
    IN trigger(next(Logged(w1, s, "start", -1), s), s, "start"))

\* Naboo.prototype.start (lines 24-32)
start(w0, s, fn) ==
  Strict(w0, LAMBDA w :
    LET w1 == IF fn # NoFn THEN on(w, s, "end", fn) ELSE w
        w2 == trigger(Logged(w1, s, "start", -1), s, "start")
    IN next(w2, s))

\* Naboo.prototype.trigger (lines 100-105)
trigger(w0, s, name) ==
  Strict(w0, LAMBDA w :
    IF w.exc \/ name \notin DOMAIN w._handlers[s] THEN w
    ELSE forEach(w, s, name, 1, Len(w._handlers[s][name])))

\* handlers.forEach: indices below the length at the start of the call,
\* read from the live array.
forEach(w0, s, name, i, len) ==
  Strict(w0, LAMBDA w :
    IF w.exc \/ i > len THEN w
    ELSE LET hs == IF name \in DOMAIN w._handlers[s] THEN w._handlers[s][name] ELSE <<>>
         IN forEach(IF i <= Len(hs) THEN callFn(w, hs[i]) ELSE w, s, name, i + 1, len))

\* Calling a listener.
callFn(w0, fn) ==
  Strict(w0, LAMBDA w :
    CASE fn.kind = "undefined" -> w
      [] fn.kind = "user" -> Logged(w, fn.seq, "fn", fn.id)
      [] fn.kind = "animateCb" ->
           \* function () { cb && cb(); next() } (lines 405-408)
           continuation(callFn(w, fn.inner), fn.seq, fn.step)
      [] fn.kind = "pcb" ->
           \* () => (n-- === 0 && next()) (line 134)
           LET old == w.p_n[fn.seq][fn.step]
               w1 == [w EXCEPT !.p_n[fn.seq][fn.step] = old - 1]
           IN IF CountdownDone(old) THEN continuation(w1, fn.seq, fn.step) ELSE w1)

\* ------------------------------------------------------------ Naboo.transition
\* `let nabooNum = dom.getAttribute('data-naboo'); if (nabooNum !== +nabooNum)
\*  nabooNum = 0` (lines 297-300)
nabooNum(w, d) ==
  IF NotItsNumber(getAttribute(w, d)) THEN 0 ELSE ToNumber(getAttribute(w, d))

\* duration as used after lines 286, 303-307 (milliseconds)
effectiveDuration(w, opt) ==
  LET parsed == OrDefault(parseInt(opt.duration), DefaultDuration)
  IN Max(IF tool_off(w.platform) THEN 0 ELSE parsed, 0)

effectiveDelay(opt) == OrDefault(parseInt(opt.delay), DefaultDelay)
effectiveEase_asis(opt) == IF opt.ease.t = "string" THEN opt.ease.str ELSE "ease"
effectiveEase(opt) ==
  IF opt.ease.t = "string" /\ opt.ease.str \in easeArr THEN opt.ease.str ELSE "ease"

\* The argument guard (line 284)
ArgumentsOk(d, property) == d # NoDom /\ property.plain

\* cssValues (lines 311-346): the target values, and for a positive
\* duration the four declarations, each appended to what the target holds.
cssValues(w, d, property, duration, delay, ease) ==
  LET values == [x \in {property.keys[j] : j \in 1..Len(property.keys)} |-> <<"value">>]
      decl == [x \in TransitionNames |->
                CASE x = transitionProperty -> styleOf(w, d, x) \o property.keys
                  [] x = transitionDuration -> Append(styleOf(w, d, x), duration)
                  [] x = transitionTiming -> Append(styleOf(w, d, x), ease)
                  [] x = transitionDelay -> Append(styleOf(w, d, x), delay)]
  IN IF duration > 0 THEN decl @@ values ELSE values

\* Naboo.transition (lines 283-386).  The closure of the call is invs[i]:
\* its locals dom, duration, delay, cb, fired, and the timer of line 378.
\* log[0] records the call, each run of the handler past its guards
\* ("done"), and each reset of the declarations.
transition(w0, d, property, opt) ==
  Strict(w0, LAMBDA w :
    IF ~ArgumentsOk(d, property) THEN w
    ELSE LET duration == effectiveDuration(w, opt)
             delay == effectiveDelay(opt)
             ease == effectiveEase(opt)
             cb == IF opt.cb.kind = "undefined" THEN NoFn ELSE opt.cb
             i == Len(w.invs) + 1
             w1 == setAttribute(w, d, nabooNum(w, d) + 1)
             values == cssValues(w1, d, property, duration, delay, ease)
             inv == [dom |-> d, opt |-> opt, duration |-> duration, delay |-> delay,
                     ease |-> ease, cb |-> cb,
                     fired |-> FALSE, timer |-> TRUE,
                     timeout |-> (duration + delay) + Grace]
             w2 == Logged([w1 EXCEPT !.invs = Append(@, inv)], 0, "call", i)
             w3 == IF duration > 0 THEN addEventListener(w2, d, i) ELSE w2
         IN setCss(w3, d, values))

\* wrappedCallback (lines 353-373); event = NoEvent is the call by the timer
wrappedCallback(w0, i, event) ==
  Strict(w0, LAMBDA w :
    LET inv == w.invs[i]
        d == inv.dom
    IN IF event # NoEvent /\ ElapsedMismatch(event, inv) THEN w
       ELSE IF event # NoEvent /\ ~event.self THEN w
       ELSE LET w1 == removeEventListener(w, d, i)
                w2 == Logged([w1 EXCEPT !.invs[i].fired = TRUE], 0, "done", i)
                w3 == setAttribute(w2, d, ToNumber(getAttribute(w2, d)) - 1)
                w4 == IF CounterIsZero(w3, d)
                        THEN Logged(setCss(w3, d, cssReset), 0, "reset", i) ELSE w3
            IN callFn(w4, inv.cb))

\* animate: opt.mode = (['transition'].indexOf(opt.mode) > -1) ? opt.mode : 'transition'
\* (lines 409-411)
modes == {"transition"}
effectiveMode(opt) ==
  IF opt.mode.t = "string" /\ opt.mode.str \in modes THEN opt.mode ELSE Str("transition")

\* The drivers Naboo[mode] that exist: Naboo.transition (line 266)
drivers == {"transition"}

\* The animate plugin (lines 402-413) as step k of s.  The option object is
\* the client's (shared by every step it was given to) or, when the step
\* was appended without one, a fresh {}.
animate(w0, s, k) ==
  Strict(w0, LAMBDA w :
    LET st == w.steps[s][k + 1]
        opt == IF st.opt = 0 THEN EmptyOpt ELSE w.opts[st.opt]
        opt1 == [opt EXCEPT !.cb = AnimateCb(opt.cb, s, k), !.mode = effectiveMode(opt)]
        w1 == IF st.opt = 0 THEN w ELSE [w EXCEPT !.opts[st.opt] = opt1]
    IN \* Naboo[opt.mode](dom, prop, opt) (line 412)
       IF opt1.mode.str \in drivers THEN transition(w1, st.dom, st.prop, opt1)
       ELSE [w1 EXCEPT !.exc = TRUE])

\* The fallback timer of invocation i fires (line 378).
timerFires(w0, i) ==
  Strict(w0, LAMBDA w :
    LET w1 == Logged([w EXCEPT !.invs[i].timer = FALSE], 0, "timer", i)
    IN IF TimerRuns(w.invs[i]) THEN wrappedCallback(w1, i, NoEvent) ELSE w1)

\* The platform dispatches a transitionEnd event on target d: every listener
\* registered when the dispatch starts and not removed since is called.
RECURSIVE dispatch(_, _, _, _)
dispatch(w0, d, event, todo) ==
  Strict(w0, LAMBDA w :
    IF w.exc \/ todo = <<>> THEN w
    ELSE dispatch(IF InSeq(w.listeners[d], Head(todo))
                    THEN wrappedCallback(w, Head(todo), event) ELSE w,
                  d, event, Tail(todo)))

\* ------------------------------------------------------------ initial state
\* Runtimes the driver is loaded on: one with unprefixed transitions, one
\* with the Webkit prefix only, one without transitions.
Standard == Platform(TRUE, TRUE, {})
WebkitOnly == Platform(FALSE, FALSE, {"Webkit"})
NoTransitions == Platform(FALSE, FALSE, {})
Platforms == {Standard, NoTransitions}

\* The state when the module has loaded and the client has constructed its
\* sequences (new Naboo(), lines 11-16) and holds untouched target elements.
InitOn(platforms, builds) ==
  /\ steps = [s \in Seqs |-> Naboo.steps]
  /\ _index = [s \in Seqs |-> Naboo._index]
  /\ canceled = [s \in Seqs |-> Naboo.canceled]
  /\ _handlers = [s \in Seqs |-> Naboo._handlers]
  /\ p_n = [s \in Seqs |-> <<>>]
  /\ pending = [s \in Seqs |-> {}]
  /\ build \in builds
  /\ platform \in platforms
  /\ opts = <<>>
  /\ attr = [d \in Doms |-> Null]
  /\ style = [d \in Doms |-> NoHandlers]
  /\ listeners = [d \in Doms |-> <<>>]
  /\ invs = <<>>
  /\ uncaught = 0
  /\ log = [s \in 0..NumSeqs |-> <<>>]

Init == InitOn(Platforms, Builds)

\* ------------------------------------------------------------ actions
HasEntry(s, tag) == \E j \in 1..Len(log[s]) : log[s][j][1] = tag

\* The instance method installed by Naboo.register (lines 119-124):
\* this.steps.push(closure); return this
push_front(w, s, step) == [w EXCEPT !.steps[s] = <<step>> \o @]
push(w, s, step) == [w EXCEPT !.steps[s] = Append(@, step)]

\* new Naboo() (lines 11-16) bound to the identity s
construct(w, s) ==
  [w EXCEPT !.steps[s] = Naboo.steps, !._index[s] = Naboo._index,
            !._handlers[s] = Naboo._handlers, !.canceled[s] = Naboo.canceled]

\* Naboo.prototype[name] (lines 119-124): the world after the call and the
\* value returned
method(w, s, step) == [w |-> push(w, s, step), ret |-> s]

\* Naboo[name] (lines 114-118), `new Naboo()` yielding the identity s
factory(w, s, step) ==
  LET ret == s
      r == method(construct(w, ret), ret, step)
  IN [w |-> r.w, ret |-> ret]

\* The client chains plugin calls before it starts the sequence.
CanAppend(s) == Len(steps[s]) < MaxSteps /\ log[s] = <<>>

\* s.done(fn): fn calls its continuation inside the call (sync) or later
AppendDone(s, sync) ==
  /\ CanAppend(s)
  /\ \E w \in {push(World, s, DoneStep(sync))} : Commit(w)

\* s.p(c1, ..., cN)
AppendP(s, children) ==
  /\ CanAppend(s)
  /\ \E w \in {push(World, s, PStep(children))} : Commit(w)

\* s.start(fn) called by the client
Start(s, fn) ==
  /\ ~HasEntry(s, "start")
  /\ \E w \in {start(World, s, fn)} : Commit(w)

\* s.cancel() called by the client
Cancel(s) ==
  /\ ~canceled[s]
  /\ \E w \in {Logged(cancel(World, s), s, "cancel", -1)} : Commit(w)

\* The client function of done-step k calls the continuation it was given.
Resume(s, k) ==
  /\ k \in pending[s]
  /\ \E w \in {continuation([World EXCEPT !.pending[s] = @ \ {k}], s, k)} : Commit(w)

\* s.animate(dom, prop, opt); o = 0 appends the step without an option object
AppendAnimate(s, d, prop, o) ==
  /\ CanAppend(s)
  /\ \E w \in {push(World, s, AnimateStep(d, prop, o))} : Commit(w)

\* The client creates the option objects it hands to animate steps.
NewOptions(objects) ==
  /\ opts = <<>>
  /\ \A s \in Seqs : log[s] = <<>>
  /\ \E w \in {[World EXCEPT !.opts = objects]} : Commit(w)

\* Naboo.transition(dom, property, opt) called by the client
TransitionCall(d, property, opt) ==
  /\ Len(invs) < MaxCalls
  /\ \E w \in {transition(World, d, property, opt)} : Commit(w)

\* The fallback timer of invocation i fires.
TimerFire(i) ==
  /\ i \in 1..Len(invs)
  /\ invs[i].timer
  /\ \E w \in {timerFires(World, i)} : Commit(w)

\* The platform dispatches transitionEnd on target d.
TransitionEnd(d, event) ==
  /\ \E w \in {dispatch(World, d, event, listeners[d])} : Commit(w)

\* ------------------------------------------------------------ specifications
Root == 1
SyncChoices == BOOLEAN
EndFns(s) == {NoFn, UserFn(s, 0)}

\* One sequence of done steps.
NextSeq ==
  \/ \E sync \in SyncChoices : AppendDone(Root, sync)
  \/ \E fn \in EndFns(Root) : Start(Root, fn)
  \/ Cancel(Root)
  \/ \E k \in 0..(MaxSteps - 1) : Resume(Root, k)

SpecSeq == InitOn({Standard}, {"own"}) /\ [][NextSeq]_vars

\* A root sequence with p steps over child sequences of done steps.
Children == Seqs \ {Root}
MaxChildSteps == 1
\* the argument lists of p: children in increasing order, none handed to
\* an earlier p step
RECURSIVE Increasing(_)
Increasing(S) ==
  IF S = {} THEN <<>>
  ELSE LET m == CHOOSE x \in S : \A y \in S : x <= y
       IN <<m>> \o Increasing(S \ {m})
UsedChildren ==
  {steps[Root][j].children[i] :
     <<j, i>> \in {x \in (1..Len(steps[Root])) \X (1..NumSeqs) :
                     /\ steps[Root][x[1]].kind = "p"
                     /\ x[2] <= Len(steps[Root][x[1]].children)}}
ChildLists == {Increasing(S) : S \in SUBSET (Children \ UsedChildren)}

NextPar ==
  \/ \E cs \in ChildLists : Len(steps[Root]) < MaxSteps - 1 /\ AppendP(Root, cs)
  \/ Len(steps[Root]) < MaxSteps - 1 /\ AppendDone(Root, TRUE)
  \/ \E c \in Children, sync \in SyncChoices :
       Len(steps[c]) < MaxChildSteps /\ AppendDone(c, sync)
  \/ \E fn \in EndFns(Root) : Start(Root, fn)
  \/ \E s \in Seqs : Cancel(s)
  \/ \E c \in Children, k \in 0..(MaxChildSteps - 1) : Resume(c, k)

SpecPar == InitOn({Standard}, Builds) /\ [][NextPar]_vars

\* Inputs of the driver.
PropArgs == {PlainObject(<<"opacity">>), NotPlainObject}
DomArgs == Doms \cup {NoDom}
\* option objects: {} (all defaults, no callback); the values of the fallback
\* example, with an ease outside the enum; a negative duration
OptArgs(cb) ==
  {EmptyOpt,
   Opt(Num(100), Str("bounce"), Num(50), cb),
   Opt(Num(-100), Str("linear"), Undefined, cb)}
\* events: from the element itself or bubbled from a child, with the elapsed
\* time of one of the invocations on the target or another value
Elapsed(d) ==
  {invs[i].duration + invs[i].delay : i \in {j \in 1..Len(invs) : invs[j].dom = d}} \cup {-1}
Events(d) == {Event(self, e) : self \in BOOLEAN, e \in Elapsed(d)}

\* The driver called directly, with overlapping invocations.
NextTr ==
  \/ \E d \in DomArgs, property \in PropArgs :
       \E opt \in OptArgs(UserFn(0, Len(invs) + 1)) :
         TransitionCall(d, property, opt)
  \/ \E i \in 1..MaxCalls : TimerFire(i)
  \/ \E d \in Doms : \E event \in Events(d) : TransitionEnd(d, event)

SpecTr == InitOn(Platforms, {"own"}) /\ [][NextTr]_vars

\* One sequence of animate steps on one element.  A step names the element
\* and a plain property object, or misses one of the two.
Element == CHOOSE d \in Doms : \A e \in Doms : d <= e
StepArgs ==
  {<<Element, PlainObject(<<"opacity">>)>>,
   <<NoDom, PlainObject(<<"opacity">>)>>,
   <<Element, NotPlainObject>>}
\* the client's option objects: the values of the fallback example, and a
\* negative duration; a step that misses an argument is appended without options
ClientOptions ==
  <<Opt(Num(100), Str("bounce"), Num(50), UserFn(Root, 9)),
    Opt(Num(-100), Str("linear"), Undefined, UserFn(Root, 9))>>
OptionsFor(target) ==
  IF ArgumentsOk(target[1], target[2]) THEN 0..Len(opts) ELSE {0}
NextAnim ==
  \/ NewOptions(ClientOptions)
  \/ \E target \in StepArgs : \E o \in OptionsFor(target) :
       Len(steps[Root]) < MaxAnimSteps /\ AppendAnimate(Root, target[1], target[2], o)
  \/ Start(Root, NoFn)
  \/ Cancel(Root)
  \/ \E i \in 1..MaxAnimSteps : TimerFire(i)
  \/ \E d \in Doms : \E event \in Events(d) : TransitionEnd(d, event)

SpecAnim == InitOn({Standard}, {"own"}) /\ [][NextAnim]_vars

\* The event loop runs every timer that is due.
FairSpecAnim == SpecAnim /\ \A i \in 1..MaxAnimSteps : WF_vars(TimerFire(i))

\* ------------------------------------------------------------ observations
\* Reading the recorded log of a sequence.
Count(s, tag) == Len(SelectSeq(log[s], LAMBDA e : e[1] = tag))
CountOf(s, tag, arg) == Len(SelectSeq(log[s], LAMBDA e : e = <<tag, arg>>))
Has(s, tag, arg) == \E j \in 1..Len(log[s]) : log[s][j] = <<tag, arg>>
\* position of the first <<tag, arg>>, 0 when there is none
Pos(s, tag, arg) ==
  IF Has(s, tag, arg)
    THEN CHOOSE j \in 1..Len(log[s]) :
           log[s][j] = <<tag, arg>> /\ \A i \in 1..(j - 1) : log[s][i] # <<tag, arg>>
    ELSE 0
Before(s, tag1, arg1, tag2, arg2) ==
  Has(s, tag1, arg1) /\ Has(s, tag2, arg2) /\ Pos(s, tag1, arg1) < Pos(s, tag2, arg2)
\* the steps invoked so far, in order
Invoked(s) ==
  LET sel == SelectSeq(log[s], LAMBDA e : e[1] = "invoke")
  IN [j \in 1..Len(sel) |-> sel[j][2]]
NumSteps(s) == Len(steps[s])

\* ------------------------------------------------------------ claims
\* C1: a sequence of n >= 1 steps that each call their continuation once,
\* started once: the steps invoked so far are always 0, 1, ..., m-1 in
\* append order, each once; step k+1 is invoked only after step k called
\* its continuation; and when nothing is in flight and the sequence was not
\* canceled, all n steps have been invoked.
C1_SequentialOrder ==
  LET s == Root IN
  /\ Len(Invoked(s)) <= NumSteps(s)
  /\ \A j \in 1..Len(Invoked(s)) : Invoked(s)[j] = j - 1
  /\ \A k \in 1..(NumSteps(s) - 1) :
       Has(s, "invoke", k) => Before(s, "cont", k - 1, "invoke", k)
  /\ \A k \in 0..(NumSteps(s) - 1) : CountOf(s, "cont", k) <= 1
  /\ (HasEntry(s, "start") /\ ~HasEntry(s, "cancel") /\ pending[s] = {})
       => Len(Invoked(s)) = NumSteps(s)

\* C1 witness: three steps, the second one asynchronous, all invoked and completed.
C1_Witness ==
  /\ NumSteps(Root) = 3
  /\ ~steps[Root][2].sync
  /\ Invoked(Root) = <<0, 1, 2>>
  /\ Has(Root, "cont", 2)

\* C2: `end` fires at most once; it has fired exactly once as soon as the
\* sequence was started and every step called its continuation without a
\* cancel before the last of these calls (for n = 0: before start); it
\* fires only after the last step's continuation; and it never fires when
\* cancel() came before that last continuation.
LastDone(s) ==
  IF NumSteps(s) = 0 THEN HasEntry(s, "start") ELSE Has(s, "cont", NumSteps(s) - 1)
CanceledBeforeLast(s) ==
  /\ HasEntry(s, "cancel")
  /\ IF NumSteps(s) = 0
       THEN ~HasEntry(s, "start") \/ Before(s, "cancel", -1, "start", -1)
       ELSE ~Has(s, "cont", NumSteps(s) - 1)
            \/ Before(s, "cancel", -1, "cont", NumSteps(s) - 1)
C2_EndOnce ==
  LET s == Root IN
  /\ Count(s, "end") <= 1
  /\ HasEntry(s, "end") => LastDone(s)
  /\ (HasEntry(s, "end") /\ NumSteps(s) > 0)
       => Before(s, "cont", NumSteps(s) - 1, "end", -1)
  /\ (LastDone(s) /\ ~CanceledBeforeLast(s)) => Count(s, "end") = 1
  /\ CanceledBeforeLast(s) => Count(s, "end") = 0

\* C2 witness: a sequence whose last step completed asynchronously has ended once.
C2_Witness ==
  /\ NumSteps(Root) = 2
  /\ ~steps[Root][2].sync
  /\ Count(Root, "end") = 1
  /\ Has(Root, "fn", 0)

\* C3: soft cancel.  With cancel() after step 1's continuation and before
\* step 2's, step 3 is never invoked and `end` never fires, the in-flight
\* step 2 can still call its continuation, and no call fails; and once
\* canceled is set, no step is invoked and the cursor stays.
CancelBetween1And2(s) ==
  /\ NumSteps(s) = 3
  /\ Before(s, "cont", 0, "cancel", -1)
  /\ ~Has(s, "cont", 1) \/ Before(s, "cancel", -1, "cont", 1)
C3_SoftCancelState ==
  LET s == Root IN
  CancelBetween1And2(s) =>
    /\ ~Has(s, "invoke", 2)
    /\ ~HasEntry(s, "end")
    /\ uncaught = 0
    /\ Has(s, "invoke", 1) /\ (Has(s, "cont", 1) \/ 1 \in pending[s])
C3_SoftCancelStep ==
  canceled[Root] => /\ _index'[Root] = _index[Root]
                    /\ Invoked(Root)' = Invoked(Root)
                    /\ Count(Root, "end")' = Count(Root, "end")
C3_SoftCancel == []C3_SoftCancelState /\ [][C3_SoftCancelStep]_vars

\* C3 witness: the in-flight second step called its continuation after the cancel.
C3_Witness ==
  /\ CancelBetween1And2(Root)
  /\ Before(Root, "cancel", -1, "cont", 1)
  /\ _index[Root] = 1

\* The p steps of s, and the children handed to step k.
PSteps(s) == {k \in 0..(NumSteps(s) - 1) : steps[s][k + 1].kind = "p"}
ChildrenOf(s, k) ==
  {steps[s][k + 1].children[j] : j \in 1..Len(steps[s][k + 1].children)}
Ended(k, s) == {c \in ChildrenOf(s, k) : HasEntry(c, "end")}

\* C4: once a p step has been invoked, it has started each of its N
\* children exactly once, and its continuation has not been called while
\* fewer than N children have fired `end`.
C4_ParallelWaitsForAll ==
  \A k \in PSteps(Root) :
    Has(Root, "invoke", k) =>
      /\ \A c \in ChildrenOf(Root, k) : CountOf(Root, "pstart", c) = 1
      /\ Has(Root, "cont", k) => Ended(k, Root) = ChildrenOf(Root, k)

\* C5: when the last of the N >= 1 children of an invoked p step has fired
\* `end`, the continuation of the step has been called exactly once; and a
\* started root whose p steps all saw their children end, and which was not
\* canceled, has fired its own `end`.
C5_ParallelAdvances ==
  /\ \A k \in PSteps(Root) :
       (/\ Has(Root, "invoke", k)
        /\ ChildrenOf(Root, k) # {}
        /\ Ended(k, Root) = ChildrenOf(Root, k)
        /\ ~Before(Root, "cancel", -1, "invoke", k))
       => CountOf(Root, "cont", k) = 1
  /\ (/\ HasEntry(Root, "start")
      /\ ~HasEntry(Root, "cancel")
      /\ \A k \in PSteps(Root) :
           ChildrenOf(Root, k) # {} /\ \A c \in ChildrenOf(Root, k) : HasEntry(c, "end"))
     => HasEntry(Root, "end")

\* Invocations of the driver, read from log[0].
Calls == 1..Len(invs)
Done(i) == Has(0, "done", i)
InFlight(d) == {i \in Calls : invs[i].dom = d /\ ~Done(i)}
\* j started while i had not completed
Overlap(i, j) ==
  /\ i < j /\ invs[i].dom = invs[j].dom
  /\ ~Done(i) \/ Before(0, "call", j, "done", i)
\* i completed while j was still in flight
CompletedFirst(i, j) == Done(i) /\ (~Done(j) \/ Before(0, "done", i, "done", j))

\* C6: of two overlapping invocations on one target, the one that completes
\* first does not reset the transition declarations, and the one that
\* completes second does.
C6_CounterGatedCleanup ==
  \A i, j \in Calls :
    Overlap(i, j) =>
      /\ CompletedFirst(i, j) => ~Has(0, "reset", i)
      /\ CompletedFirst(j, i) => ~Has(0, "reset", j)
      /\ (Done(i) /\ Done(j)) =>
           IF Before(0, "done", i, "done", j) THEN Has(0, "reset", j) ELSE Has(0, "reset", i)

\* C7: the data-naboo counter of a target is the number of invocations on
\* it that have started and not completed (so it is never negative, and 0
\* exactly when none is in flight).
Counter(d) == ToNumber(attr[d])
C7_CounterCountsInFlight ==
  \A d \in Doms : Counter(d) = Cardinality(InFlight(d))

\* C8: the handler body of an invocation (decrement, conditional reset,
\* caller callback) runs at most once, whichever of the event and the timer
\* comes first and whatever comes after.
C8_HandlerAtMostOnce ==
  \A i \in Calls :
    /\ CountOf(0, "done", i) <= 1
    /\ CountOf(0, "reset", i) <= 1
    /\ CountOf(0, "fn", i) <= 1
    /\ invs[i].fired <=> Done(i)
    /\ Done(i) => ~InSeq(listeners[invs[i].dom], i)

\* C8 witness: the event path completed an invocation with a caller
\* callback, and its timer fired afterwards.
C8_Witness ==
  \E i \in Calls :
    /\ CountOf(0, "fn", i) = 1
    /\ Before(0, "done", i, "timer", i)

\* The animate steps of s, the invocation made by step k, and whether a
\* callback chain ends in a client callback.
AnimateSteps(s) == {k \in 0..(NumSteps(s) - 1) : steps[s][k + 1].kind = "animate"}
InvOf(s, k) ==
  {i \in Calls : /\ invs[i].cb.kind = "animateCb"
                 /\ invs[i].cb.seq = s /\ invs[i].cb.step = k}
RECURSIVE HasUserCb(_)
HasUserCb(cb) ==
  IF cb.kind = "user" THEN TRUE
  ELSE IF cb.kind = "animateCb" THEN HasUserCb(cb.inner) ELSE FALSE
ValidStep(s, k) == ArgumentsOk(steps[s][k + 1].dom, steps[s][k + 1].prop)
TimerScheduled(i) ==
  /\ invs[i].timeout = invs[i].duration + invs[i].delay + 25
  /\ invs[i].timer \/ Done(i)

\* C9 as stated: every invoked animate step has made a transition
\* invocation whose fallback timer, set to duration + delay + 25, is
\* pending or has completed it.
C9_EveryAnimateHasTimer ==
  \A k \in AnimateSteps(Root) :
    Has(Root, "invoke", k) => \E i \in InvOf(Root, k) : TimerScheduled(i)

\* C9 amended: an animate step invoked with a target and a plain property
\* object has scheduled that timer (425 for a step without options), and
\* with no more than the timers running it eventually calls the caller's
\* callback and then the continuation.
C9_ValidAnimateHasTimer ==
  \A k \in AnimateSteps(Root) :
    (Has(Root, "invoke", k) /\ ValidStep(Root, k)) =>
      /\ Cardinality(InvOf(Root, k)) = 1
      /\ \A i \in InvOf(Root, k) :
           /\ TimerScheduled(i)
           /\ steps[Root][k + 1].opt = 0 => invs[i].timeout = 425
           /\ Done(i) <=> Has(Root, "cont", k)
           /\ (Done(i) /\ HasUserCb(invs[i].cb))
                => \E a \in 1..Len(log[Root]) :
                     log[Root][a][1] = "fn" /\ a < Pos(Root, "cont", k)
C9_ForwardProgress ==
  /\ []C9_ValidAnimateHasTimer
  /\ \A k \in 0..(MaxAnimSteps - 1) :
       (k \in AnimateSteps(Root) /\ Has(Root, "invoke", k) /\ ValidStep(Root, k))
         ~> Has(Root, "cont", k)

\* C9 witness: a step with duration 100 and delay 50 was completed by its
\* timer of 175 ms, no event having run its handler.
C9_Witness ==
  \E k \in AnimateSteps(Root) : \E i \in InvOf(Root, k) :
    /\ invs[i].timeout = 175
    /\ Before(0, "timer", i, "done", i)
    /\ Has(Root, "cont", k)

\* C10: after cancel() a completing transition still decrements the counter
\* once, resets the declarations when the counter reaches zero, and calls
\* the client callback and the continuation; the continuation invokes no
\* step, fires no `end` and leaves the cursor; no handler runs twice; and
\* every invocation in flight does complete.
DoneOn(d) ==
  Len(SelectSeq(log[0], LAMBDA e : e[1] = "done" /\ invs[e[2]].dom = d))
DeclarationsOn(d) == TransitionNames \cap DOMAIN style[d]
C10_CompletionAfterCancel ==
  canceled[Root] =>
    /\ _index'[Root] = _index[Root]
    /\ Invoked(Root)' = Invoked(Root)
    /\ Count(Root, "end")' = Count(Root, "end")
    /\ \A d \in Doms : Counter(d)' = Counter(d) - (DoneOn(d)' - DoneOn(d))
    /\ \A i \in Calls :
         (~Done(i) /\ Done(i)') =>
           /\ Counter(invs[i].dom)' = 0 => DeclarationsOn(invs[i].dom)' = {}
           /\ CountOf(Root, "cont", invs[i].cb.step)' =
                CountOf(Root, "cont", invs[i].cb.step) + 1
           /\ HasUserCb(invs[i].cb) => Count(Root, "fn")' = Count(Root, "fn") + 1
C10_CancelKeepsTransition ==
  /\ [][C10_CompletionAfterCancel]_vars
  /\ [](\A i \in Calls : CountOf(0, "done", i) <= 1)
  /\ \A i \in 1..MaxAnimSteps : (i \in Calls) ~> Done(i)

\* C10 witness: cancel() came while the first of two animate steps was in
\* flight; the step then completed, called the client callback and its
\* continuation, and the cursor stayed on it.
C10_Witness ==
  /\ NumSteps(Root) = 2
  /\ Before(Root, "invoke", 0, "cancel", -1)
  /\ Before(Root, "cancel", -1, "cont", 0)
  /\ Has(Root, "fn", 9)
  /\ _index[Root] = 0
  /\ \A d \in Doms : DeclarationsOn(d) = {}

\* C11: on a platform with neither the unprefixed nor a prefixed transition
\* property the no-support flag is true, and every invocation there has an
\* effective duration of 0, applies no transition declaration, registers no
\* listener, and runs its callback at most once.
C11_NoSupportForcesZero ==
  (platform = NoTransitions /\ Calls # {}) =>
    /\ tool_off(platform)
    /\ \A i \in Calls :
         /\ invs[i].duration = 0
         /\ ~InSeq(listeners[invs[i].dom], i)
         /\ CountOf(0, "fn", i) <= 1
    /\ \A d \in Doms : DeclarationsOn(d) = {}

\* ------------------------------------------------------------ the event bus
MaxBusOps == 3        \* calls of on, off and trigger by the client

\* Event names and listener functions the client uses; name 0 is the absent name.
EventNames == <<"end", "tick">>
NameOf(n) == IF n = 0 THEN NoName ELSE EventNames[n]
BusFns == {UserFn(Root, 1), UserFn(Root, 2)}
FnId(fn) == IF fn = NoFn THEN -1 ELSE fn.id
BusOps(s) == Count(s, "on") + Count(s, "off") + Count(s, "trigger")

\* The client's call is recorded as <<op, n>>, <<"arg", id>> before it runs.
Called(w, s, op, n, fn) == Logged(Logged(w, s, op, n), s, "arg", FnId(fn))

\* s.on(name, fn)
On(s, n, fn) ==
  /\ BusOps(s) < MaxBusOps
  /\ \E w \in {on(Called(World, s, "on", n, fn), s, NameOf(n), fn)} : Commit(w)

\* s.off(), s.off(name), s.off(name, fn)
Off(s, n, fn) ==
  /\ BusOps(s) < MaxBusOps
  /\ \E w \in {off(Called(World, s, "off", n, fn), s, NameOf(n), fn)} : Commit(w)

\* s.trigger(name)
Trigger(s, n) ==
  /\ BusOps(s) < MaxBusOps
  /\ \E w \in {trigger(Called(World, s, "trigger", n, NoFn), s, NameOf(n))} : Commit(w)

NextBus ==
  \/ \E n \in 1..Len(EventNames), fn \in BusFns : On(Root, n, fn)
  \/ \E n \in 0..Len(EventNames), fn \in BusFns \cup {NoFn} : Off(Root, n, fn)
  \/ \E n \in 1..Len(EventNames) : Trigger(Root, n)

SpecBus == InitOn({Standard}, {"own"}) /\ [][NextBus]_vars

\* The step is the client's call op(n, fn) on s, as the record shows it.
CallStep(s, op, n, id) ==
  /\ Len(log'[s]) >= Len(log[s]) + 2
  /\ log'[s][Len(log[s]) + 1] = <<op, n>>
  /\ log'[s][Len(log[s]) + 2] = <<"arg", id>>
AllNames == {EventNames[n] : n \in 1..Len(EventNames)} \cup {"start"}

\* C12: off(name) on a name without listeners (a second off(name), or a name
\* never used) and off(name, fn) for an fn not registered under name do not
\* fail, leave the list of name as it was, and leave the list of every other
\* name unchanged; off(name) always leaves the list of name empty.
C12_OffStep ==
  \A n \in 1..Len(EventNames), id \in {-1, 1, 2} :
    CallStep(Root, "off", n, id) =>
      LET name == EventNames[n]
          before == ListOf(_handlers[Root], name)
          after == ListOf(_handlers'[Root], name)
      IN /\ uncaught' = uncaught
         /\ \A x \in AllNames \ {name} :
              ListOf(_handlers'[Root], x) = ListOf(_handlers[Root], x)
         /\ id = -1 => after = <<>>
         /\ (id # -1 /\ ~InSeq(before, UserFn(Root, id))) => after = before
C12_OffIdempotentLocal == [][C12_OffStep]_vars

\* C12 witness: off(end) was called twice in a row while tick had a
\* listener, which is still registered.
C12_Witness ==
  /\ \E j \in 1..(Len(log[Root]) - 3) :
       SubSeq(log[Root], j, j + 3) = <<<<"off", 1>>, <<"arg", -1>>, <<"off", 1>>, <<"arg", -1>>>>
  /\ ListOf(_handlers[Root], "tick") # <<>>

\* C13: trigger(name) calls the listeners registered for name at that
\* moment, once per registration and in registration order (on appends to
\* the list of name), and no other;
\* off(name) leaves name without listeners and off() leaves every name
\* without listeners, so a trigger that follows invokes nothing.
Invocations(handlers) == [j \in 1..Len(handlers) |-> <<"fn", handlers[j].id>>]
C13_BusStep ==
  /\ \A n \in 1..Len(EventNames) :
       CallStep(Root, "trigger", n, -1) =>
         /\ SubSeq(log'[Root], Len(log[Root]) + 3, Len(log'[Root]))
              = Invocations(ListOf(_handlers[Root], EventNames[n]))
         /\ _handlers' = _handlers
  /\ \A n \in 1..Len(EventNames), id \in {1, 2} :
       CallStep(Root, "on", n, id) =>
         ListOf(_handlers'[Root], EventNames[n])
           = Append(ListOf(_handlers[Root], EventNames[n]), UserFn(Root, id))
  /\ \A n \in 1..Len(EventNames) :
       CallStep(Root, "off", n, -1) => ListOf(_handlers'[Root], EventNames[n]) = <<>>
  /\ \A id \in {-1, 1, 2} :
       CallStep(Root, "off", 0, id) =>
         \A x \in AllNames : ListOf(_handlers'[Root], x) = <<>>
C13_NothingAfterOff ==
  \A j \in 1..(Len(log[Root]) - 3) : \A n \in 1..Len(EventNames) :
    (/\ log[Root][j] \in {<<"off", n>>, <<"off", 0>>}
     /\ log[Root][j + 1][2] = -1 \/ log[Root][j] = <<"off", 0>>
     /\ log[Root][j + 2] = <<"trigger", n>>)
      => (j + 4 > Len(log[Root]) \/ log[Root][j + 4][1] # "fn")
C13_EventBus == []C13_NothingAfterOff /\ [][C13_BusStep]_vars

\* C13 witness: trigger(end) called the two listeners of end in the order
\* they were registered (2, then 1).
C13_Witness ==
  \E j \in 1..(Len(log[Root]) - 3) :
    SubSeq(log[Root], j, j + 3) = <<<<"trigger", 1>>, <<"arg", -1>>, <<"fn", 2>>, <<"fn", 1>>>>

\* ------------------------------------------------------------ registration
\* The client builds sequences with the registered `done` plugin: through
\* the instance method at any moment of a sequence's life, or through the
\* static factory.  Each call is recorded in the log of the sequence it
\* returns as <<op, sync>>, <<"ret", returned sequence>>.
Made == Root + 1
RegSeqs == {Root, Made}
Flag(b) == IF b THEN 1 ELSE 0
Returned(r, op, sync) == Logged(Logged(r.w, r.ret, op, Flag(sync)), r.ret, "ret", r.ret)

\* an identity no object has been bound to
Fresh(s) ==
  /\ steps[s] = <<>> /\ log[s] = <<>> /\ ~canceled[s]
  /\ _index[s] = -1 /\ _handlers[s] = NoHandlers

\* s.done(fn)
Method(s, sync) ==
  /\ Len(steps[s]) < MaxSteps
  /\ \E w \in {Returned(method(World, s, DoneStep(sync)), "method", sync)} : Commit(w)

\* Naboo.done(fn)
Factory(s, sync) ==
  /\ Fresh(s)
  /\ \E w \in {Returned(factory(World, s, DoneStep(sync)), "factory", sync)} : Commit(w)

NextReg ==
  \/ \E sync \in SyncChoices : Method(Root, sync)
  \/ \E sync \in SyncChoices : Factory(Made, sync)
  \/ \E s \in RegSeqs : Start(s, NoFn)
  \/ Cancel(Root)
  \/ \E s \in RegSeqs, k \in 0..(MaxSteps - 1) : Resume(s, k)

SpecReg == InitOn({Standard}, {"own"}) /\ [][NextReg]_vars

\* C14: the instance method appends exactly one step (holding the captured
\* argument) at the end of the list of its sequence, changes neither cursor,
\* canceled flag nor listeners, runs nothing and returns that sequence; the
\* factory returns a sequence with the constructor's fields and exactly
\* that one step, not started, and touches no other sequence; a step that
\* runs calls the continuation of its own sequence as its captured argument
\* says (inside the call, or later).
RegStep(s, op) ==
  /\ Len(log'[s]) = Len(log[s]) + 2
  /\ log'[s][Len(log[s]) + 1][1] = op
Others(s) ==
  \A t \in Seqs \ {s} :
    /\ steps'[t] = steps[t] /\ _index'[t] = _index[t] /\ log'[t] = log[t]
    /\ canceled'[t] = canceled[t] /\ _handlers'[t] = _handlers[t]
C14_RegisterStep ==
  \A s \in RegSeqs :
    /\ RegStep(s, "method") =>
         /\ steps'[s] = Append(steps[s], DoneStep(log'[s][Len(log[s]) + 1][2] = 1))
         /\ _index'[s] = _index[s] /\ canceled'[s] = canceled[s]
         /\ _handlers'[s] = _handlers[s] /\ pending' = pending
         /\ log'[s][Len(log'[s])] = <<"ret", s>>
         /\ Others(s)
    /\ RegStep(s, "factory") =>
         /\ steps'[s] = <<DoneStep(log'[s][Len(log[s]) + 1][2] = 1)>>
         /\ _index'[s] = -1 /\ ~canceled'[s] /\ _handlers'[s] = NoHandlers
         /\ pending'[s] = {} /\ ~HasEntry(s, "start")'
         /\ log'[s][Len(log'[s])] = <<"ret", s>>
         /\ Others(s)
C14_StepRuns ==
  \A s \in RegSeqs : \A k \in 0..(NumSteps(s) - 1) :
    /\ CountOf(s, "invoke", k) <= 1
    /\ Has(s, "invoke", k) =>
         IF steps[s][k + 1].sync
           THEN Pos(s, "cont", k) = Pos(s, "invoke", k) + 1
           ELSE (k \in pending[s]) # Has(s, "cont", k)
    /\ Has(s, "cont", k) => Has(s, "invoke", k)
C14_Registration == []C14_StepRuns /\ [][C14_RegisterStep]_vars

\* C14 witness: a step appended through the instance method to a started
\* sequence has run, and a sequence made by the factory has run its step.
C14_Witness ==
  /\ Before(Root, "start", -1, "method", 1)
  /\ Has(Root, "cont", NumSteps(Root) - 1) /\ NumSteps(Root) >= 2
  /\ Has(Made, "factory", 0) /\ Has(Made, "cont", 0)

\* ------------------------------------------------------------ option coercion
\* Option objects with every permitted ease, an unknown one and none, and
\* with a mode that is absent, 'transition', or a mode not supported.
WithMode(opt, mode) == [opt EXCEPT !.mode = mode]
CoerceOptions ==
  <<WithMode(Opt(Num(100), Str("linear"), Undefined, NoFn), Str("keyframes")),
    WithMode(Opt(Num(100), Str("bounce"), Undefined, NoFn), Str("transition")),
    WithMode(Opt(Num(100), Undefined, Undefined, NoFn), Str("js")),
    Opt(Num(100), Str("ease-in-out"), Undefined, NoFn),
    WithMode(Opt(Num(100), Str("ease-in"), Undefined, NoFn), Str("keyframes")),
    Opt(Num(100), Str("ease-out"), Undefined, NoFn),
    WithMode(Opt(Num(100), Str("ease"), Undefined, NoFn), Str("transition"))>>

NextCoerce ==
  \/ NewOptions(CoerceOptions)
  \/ \E o \in 0..Len(opts) :
       Len(steps[Root]) < MaxAnimSteps
         /\ AppendAnimate(Root, Element, PlainObject(<<"opacity">>), o)
  \/ Start(Root, NoFn)
  \/ \E i \in 1..MaxAnimSteps : TimerFire(i)
  \/ \E d \in Doms : \E event \in Events(d) : TransitionEnd(d, event)

SpecCoerce == InitOn({Standard}, {"own"}) /\ [][NextCoerce]_vars

\* C15: the invocation made by an animate step uses the ease of its option
\* object when that is one of ease, linear, ease-in, ease-out, ease-in-out,
\* and "ease" otherwise (also without options), and writes it as the last
\* timing function of the target; whatever the mode of the option object,
\* the step runs the transition driver without failing and leaves the mode
\* 'transition'.
OptionsOf(k) ==
  IF steps[Root][k + 1].opt = 0 THEN EmptyOpt ELSE CoerceOptions[steps[Root][k + 1].opt]
ExpectedEase(given) ==
  IF given \in {Str("ease"), Str("linear"), Str("ease-in"), Str("ease-out"), Str("ease-in-out")}
    THEN given.str ELSE "ease"
C15_Coerced ==
  /\ uncaught = 0
  /\ \A k \in AnimateSteps(Root) :
       Has(Root, "invoke", k) =>
         /\ Cardinality(InvOf(Root, k)) = 1
         /\ \A i \in InvOf(Root, k) : invs[i].ease = ExpectedEase(OptionsOf(k).ease)
         /\ steps[Root][k + 1].opt # 0 => opts[steps[Root][k + 1].opt].mode = Str("transition")
C15_CallStep ==
  Len(invs') = Len(invs) + 1 =>
    LET inv == invs'[Len(invs')]
        timing == styleOf([style |-> style'], inv.dom, transitionTiming)
    IN timing # <<>> /\ timing[Len(timing)] = inv.ease
C15_DefaultCoercion == []C15_Coerced /\ [][C15_CallStep]_vars

\* C15 witness: a step with ease "bounce" ran with "ease" and a step with
\* mode "keyframes" and ease "linear" ran the driver with "linear".
C15_Witness ==
  \E k1, k2 \in AnimateSteps(Root) :
    /\ OptionsOf(k1).ease = Str("bounce") /\ \E i \in InvOf(Root, k1) : invs[i].ease = "ease"
    /\ OptionsOf(k2).mode = Str("keyframes")
    /\ \E i \in InvOf(Root, k2) : invs[i].ease = "linear"

\* ------------------------------------------------------------ a sequence's whole life
MaxStarts == 2        \* calls of start() on one sequence
MaxExtra == 1         \* calls of a continuation beyond the first, over all steps

\* s.start(fn), once more
StartAgain(s, fn) ==
  /\ Count(s, "start") < MaxStarts
  /\ \E w \in {start(World, s, fn)} : Commit(w)

\* The function of done-step k, invoked earlier, calls its continuation again.
CallAgain(s, k) ==
  /\ Has(s, "invoke", k) /\ k \notin pending[s]
  /\ Count(s, "cont") - Cardinality({j \in 0..(NumSteps(s) - 1) : Has(s, "cont", j)}) < MaxExtra
  /\ \E w \in {continuation(World, s, k)} : Commit(w)

\* s.on(name, fn) for a function not yet listening to name
Subscribe(s, name, fn) ==
  /\ ~InSeq(ListOf(_handlers[s], name), fn)
  /\ \E w \in {on(World, s, name, fn)} : Commit(w)

NextLife ==
  \/ \E sync \in SyncChoices : Method(Root, sync)
  \/ StartAgain(Root, NoFn)
  \/ Cancel(Root)
  \/ \E k \in 0..(MaxSteps - 1) : Resume(Root, k)
  \/ \E k \in 0..(MaxSteps - 1) : CallAgain(Root, k)

SpecLife == InitOn({Standard}, {"own"}) /\ [][NextLife]_vars

\* A sequence of done steps with listeners of `start` (1) and of `end` (the
\* function given to start(), 0), started once or again.
StartListener == UserFn(Root, 1)
NextStart ==
  \/ \E sync \in SyncChoices : AppendDone(Root, sync)
  \/ Subscribe(Root, "start", StartListener)
  \/ \E fn \in EndFns(Root) : StartAgain(Root, fn)
  \/ \E k \in 0..(MaxSteps - 1) : Resume(Root, k)

SpecStart == InitOn({Standard}, {"own"}) /\ [][NextStart]_vars

\* C16: over the whole life of a sequence `end` is triggered at most once,
\* and only with the cursor past the last step and the last step's
\* continuation called (or, without steps, start() called).
C16_EndAtMostOnce ==
  /\ Count(Root, "end") <= 1
  /\ HasEntry(Root, "end") => _index[Root] >= 0

Min(a, b) == IF a <= b THEN a ELSE b
Upto(m) == [j \in 1..m |-> j - 1]

\* C17 as stated: the steps invoked so far are exactly those at the indices
\* 0..min(cursor, length - 1), each once.
C17_InvokedIsCursorPrefix ==
  Invoked(Root) = Upto(Min(_index[Root], NumSteps(Root) - 1) + 1)

\* C17 amended: the cursor never decreases and moves by one per advance
\* (each advance invokes a step or triggers `end`), never while canceled is
\* true, when nothing else changes either; the steps invoked so far were
\* invoked in increasing order of index, each once, at indices up to
\* min(cursor, length - 1), and they are exactly the indices
\* 0..min(cursor, length - 1) as long as no step is appended to a list the
\* cursor has already left.
LateAppend == Len(steps'[Root]) > Len(steps[Root]) /\ _index[Root] >= Len(steps[Root])
C17_Prefix ==
  /\ \A i, j \in 1..Len(Invoked(Root)) : i < j => Invoked(Root)[i] < Invoked(Root)[j]
  /\ \A i \in 1..Len(Invoked(Root)) :
       Invoked(Root)[i] \in 0..Min(_index[Root], NumSteps(Root) - 1)
  /\ _index[Root] >= -1
C17_AdvanceStep ==
  /\ _index'[Root] - _index[Root]
       = (Count(Root, "invoke")' - Count(Root, "invoke"))
           + (Count(Root, "end")' - Count(Root, "end"))
  /\ _index'[Root] >= _index[Root]
  /\ canceled[Root] =>
       /\ _index'[Root] = _index[Root] /\ Invoked(Root)' = Invoked(Root)
       /\ _handlers' = _handlers /\ canceled'[Root]
  /\ (C17_InvokedIsCursorPrefix /\ ~LateAppend) => C17_InvokedIsCursorPrefix'
C17_CursorAndPrefix == []C17_Prefix /\ [][C17_AdvanceStep]_vars

\* C17 witness: the second of three steps called its continuation after
\* cancel(); the cursor stayed on it and the third step was not invoked.
C17_Witness ==
  /\ NumSteps(Root) = 3 /\ Invoked(Root) = <<0, 1>>
  /\ Before(Root, "cancel", -1, "cont", 1)
  /\ _index[Root] = 1 /\ C17_InvokedIsCursorPrefix

\* ---- the cursor of one sequence: steps appended at any time, start()
\* ---- called more than once, cancel() and continuations
NextCursor ==
  \/ \E sync \in SyncChoices : Method(Root, sync)
  \/ StartAgain(Root, NoFn)
  \/ Cancel(Root)
  \/ \E k \in 0..(MaxSteps - 1) : Resume(Root, k)
SpecCursor == InitOn({Standard}, {"own"}) /\ [][NextCursor]_vars

\* what a step adds to the history of the sequence
NewEntries == SubSeq(log'[Root], Len(log[Root]) + 1, Len(log'[Root]))

\* C18: start(onEnd) registers onEnd as a listener of `end`, then triggers
\* `start`, and only then makes the first advance: a listener of `start`
\* attached before the call runs right after the call begins and before a
\* step is invoked or `end` is triggered, and whenever `end` is triggered,
\* also inside start() itself, every listener registered for it by start()
\* is called at once.
C18_StartStep ==
  LET new == NewEntries
      L == IF InSeq(ListOf(_handlers[Root], "start"), StartListener) THEN 1 ELSE 0
      E == Len(ListOf(_handlers'[Root], "end"))
  IN /\ Count(Root, "start")' > Count(Root, "start") =>
          /\ new[1] = <<"start", -1>>
          /\ L = 1 => Len(new) >= 2 /\ new[2] = <<"fn", 1>>
          /\ \A j \in 1..(L + 1) : new[j][1] \notin {"invoke", "end"}
          /\ Len(new) >= L + 2
          /\ new[L + 2] = IF _index[Root] + 1 < NumSteps(Root)
                            THEN <<"invoke", _index[Root] + 1>> ELSE <<"end", -1>>
          /\ E - Len(ListOf(_handlers[Root], "end")) \in {0, 1}
          /\ \A j \in 1..(E - 1) : ListOf(_handlers'[Root], "end")[j] = ListOf(_handlers[Root], "end")[j]
     /\ \A j \in 1..Len(new) :
          new[j] = <<"end", -1>> =>
            /\ Len(new) >= j + E
            /\ \A i \in 1..E : new[j + i] = <<"fn", 0>>
C18_StartOrder == [][C18_StartStep]_vars

\* C18 witness: two steps that call their continuation inside the call, a
\* listener of `start` attached before start(onEnd); the one call of start()
\* ran the listener, both steps, `end` and onEnd.
C18_Witness ==
  /\ NumSteps(Root) = 2 /\ Count(Root, "start") = 1 /\ pending[Root] = {}
  /\ Len(log[Root]) >= 4
  /\ SubSeq(log[Root], 1, 3) = <<<<"start", -1>>, <<"fn", 1>>, <<"invoke", 0>>>>
  /\ Before(Root, "invoke", 1, "end", -1)
  /\ log[Root][Len(log[Root])] = <<"fn", 0>>
  /\ \A j \in 1..Len(steps[Root]) : steps[Root][j] = DoneStep(TRUE)

\* the invocations whose handler is registered on d
Listening(d) == {i \in Calls : InSeq(listeners[d], i)}
Matches(event, i) == event.self /\ event.elapsedTime = invs[i].duration + invs[i].delay

\* C19: a completion event that bubbled from a child, or whose elapsed time
\* is not the invocation's duration + delay, leaves everything as it was when
\* the handler of that invocation receives it (counter, declarations, fired,
\* listener, no callback); the invocation is still completed by a matching
\* event and by the fallback timer; and whatever is dispatched, an invocation
\* that did not complete in a step keeps its listener and its state.
C19_Unmatched ==
  \A d \in Doms : \A i \in Listening(d) :
    /\ \A event \in Events(d) :
         ~Matches(event, i) => wrappedCallback(World, i, event) = World
    /\ ~invs[i].fired /\ invs[i].timer
    /\ LET w == wrappedCallback(World, i, Event(TRUE, invs[i].duration + invs[i].delay))
       IN w.invs[i].fired /\ ~InSeq(w.listeners[d], i)
    /\ LET w == timerFires(World, i)
       IN w.invs[i].fired /\ ~InSeq(w.listeners[d], i)
C19_EventStep ==
  \A d \in Doms : \A i \in Listening(d) :
    ~Done(i)' =>
      /\ i \in Listening(d)' /\ invs'[i] = invs[i]
      /\ \A e \in 1..Len(log'[0]) : log'[0][e] # <<"fn", i>>
C19_UnmatchedEventIgnored == []C19_Unmatched /\ [][C19_EventStep]_vars

\* C19 witness: two invocations on one element with different duration +
\* delay; an event matching the first was dispatched to both handlers: the
\* first completed without its timer, the second is as it was.
C19_Witness ==
  \E d \in Doms : \E i, j \in Calls :
    /\ invs[i].dom = d /\ invs[j].dom = d
    /\ invs[i].duration + invs[i].delay # invs[j].duration + invs[j].delay
    /\ Done(i) /\ ~Has(0, "timer", i)
    /\ Before(0, "call", j, "done", i)
    /\ j \in Listening(d) /\ ~invs[j].fired /\ invs[j].timer

\* ---- the options of the driver: duration and delay as the client may
\* ---- write them (absent, numbers, strings)
DurationArgs ==
  {Undefined, Num(0), Num(100), Num(-100), Str("fast"), Str("250"), Str("0")}
DelayArgs == {Undefined, Num(0), Num(50), Num(-50), Str("soon"), Str("30ms"), Str("-20")}
ParseArgs ==
  {Opt(duration, Undefined, delay, NoFn) : duration \in DurationArgs, delay \in DelayArgs}

NextParse ==
  \/ \E opt \in ParseArgs : TransitionCall(Root, PlainObject(<<"opacity">>), opt)
  \/ \E i \in 1..MaxCalls : TimerFire(i)

SpecParse == InitOn({Standard}, {"own"}) /\ [][NextParse]_vars

\* C20: a duration option that parses as an integer d gives the effective
\* duration max(d, 0), the default only when it is absent or does not parse;
\* a delay option that parses gives that delay, the default only otherwise;
\* the effective duration is never negative.
C20_OptionParsing ==
  \A i \in Calls :
    LET d == parseInt(invs[i].opt.duration)
        l == parseInt(invs[i].opt.delay)
    IN /\ invs[i].duration = IF d.nan THEN DefaultDuration ELSE Max(d.int, 0)
       /\ invs[i].delay = IF l.nan THEN DefaultDelay ELSE l.int
       /\ invs[i].duration >= 0

\* C21: every animate step calls the continuation once, when its transition
\* has completed, also when steps share an options object: steps are invoked
\* in order without a gap, a step only after the transition of the step
\* before it has completed, and `end` is triggered once, after the
\* transition of the last step has completed.
C21_OneContinuationPerStep ==
  /\ \A k \in AnimateSteps(Root) :
       /\ CountOf(Root, "cont", k) <= 1
       /\ Has(Root, "cont", k) => \E i \in InvOf(Root, k) : Done(i)
       /\ (k > 0 /\ Has(Root, "invoke", k)) =>
            \E i \in InvOf(Root, k - 1) :
              Done(i) /\ \A j \in InvOf(Root, k) : Before(0, "done", i, "call", j)
  /\ Invoked(Root) = Upto(Len(Invoked(Root)))
  /\ Count(Root, "end") <= 1
  /\ HasEntry(Root, "end") =>
       \A k \in AnimateSteps(Root) : \E i \in InvOf(Root, k) : Done(i)

\* ---- longer sequences of animate steps, started once, the client's steps
\* ---- sharing its options object or having none
MaxSharedSteps == 3
NextShared ==
  \/ NewOptions(ClientOptions)
  \/ \E target \in StepArgs : \E o \in OptionsFor(target) :
       Len(steps[Root]) < MaxSharedSteps /\ AppendAnimate(Root, target[1], target[2], o)
  \/ Start(Root, NoFn)
  \/ \E i \in 1..MaxSharedSteps : TimerFire(i)
SpecShared == InitOn({Standard}, {"own"}) /\ [][NextShared]_vars

\* a call that misses its target or whose property argument is not a plain object
Missing(d, property) == d = NoDom \/ ~property.plain
MissingStep(k) == Missing(steps[Root][k + 1].dom, steps[Root][k + 1].prop)
DriverOptions == {EmptyOpt} \cup {ClientOptions[j] : j \in 1..Len(ClientOptions)}

\* The part of C22 about the driver and the step itself: the driver called
\* with a missing target or a property argument that is not a plain object
\* returns the state it was given (counter, styles, listeners, invocations
\* and timers, no callback), and an animate step invoked with such arguments
\* makes no invocation and its own continuation is never called.
C22_DriverPart ==
  /\ \A d \in DomArgs, property \in PropArgs, opt \in DriverOptions :
       Missing(d, property) => transition(World, d, property, opt) = World
  /\ \A k \in AnimateSteps(Root) :
       (Has(Root, "invoke", k) /\ MissingStep(k)) =>
         InvOf(Root, k) = {} /\ ~Has(Root, "cont", k)

\* C22: the driver called with a missing target or a property argument that
\* is not a plain object changes nothing and calls nothing; an animate step
\* of a sequence started once that is invoked with such arguments never calls
\* its continuation, the cursor stays on it, no later step is invoked and
\* `end` is not triggered.
C22_InvalidArguments ==
  /\ C22_DriverPart
  /\ \A k \in AnimateSteps(Root) :
       (Has(Root, "invoke", k) /\ MissingStep(k)) =>
         /\ \A j \in (k + 1)..(NumSteps(Root) - 1) : ~Has(Root, "invoke", j)
         /\ ~HasEntry(Root, "end")
         /\ _index[Root] = k

====
